---- MODULE Spec2Model ----
(***************************************************************************)
(* The dispatcher of a netchat node: src/src/server/mod.rs.                *)
(*                                                                         *)
(* Specification Spec: one node (Server) together with its environment:    *)
(* the event source (events.next()), the random id generator (rng.gen()),  *)
(* the encoder (msg.serialize()) and the output pipe (write_all).          *)
(* Every outcome the code handles is an outcome of the model: a line that  *)
(* does not decode, an envelope that does not serialize, a write that      *)
(* fails, an event source that returns an error.  The application's end of *)
(* app_tx is taken to stay open for as long as the loop runs (the code     *)
(* unwraps every send to it).                                              *)
(*                                                                         *)
(* output_file and app_tx hold what the iteration just completed appended  *)
(* to the pipe resp. sent on the channel; the reader of the pipe and the   *)
(* application consume what earlier iterations produced.  The history      *)
(* variables delivered and seen_as keep what the properties say about the  *)
(* whole run.  event keeps as much of the consumed event as the handler    *)
(* looked at: of a line whose id was already seen, the id alone.           *)
(*                                                                         *)
(* Specification SpecMerge: Clock::merge on its own, applied to every pair *)
(* of clocks over three peers.                                             *)
(*                                                                         *)
(* Specifications SpecNet and SpecFlood: three nodes, each running the     *)
(* dispatcher, joined by pipes that keep the order of the lines written    *)
(* to them; a line a node writes goes to every pipe that leaves the node.  *)
(* In SpecNet a send may fail; in SpecFlood every send succeeds and every  *)
(* node keeps reading its pipes (weak fairness of each read).  The nodes   *)
(* of the overlay originate at most MaxSends envelopes between them.       *)
(***************************************************************************)
EXTENDS Integers, Sequences, FiniteSets, TLC

\* ------------------------------------------------------------ bounds
\* The cap on the local date: a handler that increments it is taken only
\* while the local date is below MaxDate.
MaxDate == 3
\* The largest date of the clocks Clock::merge is applied to on its own.
MaxMergeDate == 2
\* The number of envelopes the nodes of the overlay originate between them.
MaxSends == 2

\* ------------------------------------------------------------ data
Peers == {"A", "B"}
\* The values rng.gen() and the id of an incoming envelope range over.
MsgIds == {1, 2}
\* The dates the entries of an incoming clock are drawn from.
RemoteDates == {0, 2, 5}
Texts == {"hi"}
LeftTheChat == "left the chat"
NoOneCanHearYou == "No one can hear you"

\* Header::Public(text) and Header::Private(app_id, text).
Public(text) == [kind |-> "Public", text |-> text]
Private(to, text) == [kind |-> "Private", to |-> to, text |-> text]
Headers == {Public(t) : t \in Texts} \cup {Private(p, t) : p \in Peers, t \in Texts}

\* Clock(HashMap<AppId, Date>): a function whose domain is the set of keys.
RemoteClocks == UNION {[S -> RemoteDates] : S \in SUBSET Peers}

\* The node's own id (Server.app_id, fixed by Server::new).
app_id == "A"

\* Msg::new(id, sender, header, clock).
Msg(id, sender, header, clk) == [id |-> id, sender |-> sender, header |-> header, clock |-> clk]
\* The envelopes a line of the input pipe can encode (the dispatcher never
\* reads the sender).
Msgs == {Msg(i, s, h, c) : i \in MsgIds, s \in Peers \ {app_id}, h \in Headers,
                          c \in RemoteClocks}

\* A line read from the input pipe: the encoding of an envelope, or a line
\* that is no envelope.
Garbage == [wf |-> FALSE]
Lines == {[wf |-> TRUE, msg |-> m] : m \in Msgs} \cup {Garbage}

\* Msg::from_str(line): Ok(msg) or Err.
from_str(line) == IF line.wf THEN [ok |-> TRUE, msg |-> line.msg] ELSE [ok |-> FALSE]

\* What msg.serialize() and output_file.write_all() come to for one send.
IoResults == {"ok", "write_err", "ser_err"}

\* The events of the application channel (crate::app::events::Event).
ServerMessage(text) == [type |-> "ServerMessage", text |-> text]
DistantMessage(m) == [type |-> "DistantMessage", msg |-> m]
ClockEvent(clk) == [type |-> "Clock", clock |-> clk]

VARIABLES
    clock,              \* server.clock
    sent_messages_ids,  \* server.sent_messages_ids
    pc,                 \* "running" (in the loop), "done" (Ok(())), "failed" (Err)
    event,              \* the event events.next() yielded to the last iteration
    relayed,            \* <<msg>> handed to send_message by the last iteration, or <<>>
    io_result,          \* how that send ended: "none", "ok", "ser_err", "write_err"
    output_file,        \* the lines the last iteration wrote to the pipe
    app_tx,             \* the events the last iteration sent to the application
    delivered,          \* history: per id, the DistantMessage events sent so far
    seen_as             \* history: how each id first entered sent_messages_ids

\* Clock::merge on its own (specification SpecMerge): self.merge(other).
VARIABLES
    m_self,             \* the clock merge is called on
    m_other,            \* the clock passed to it
    m_out               \* the clocks the calls made so far have produced

\* An overlay of nodes, each running the dispatcher, joined by pipes
\* (specifications SpecNet and SpecFlood).
VARIABLES
    n_clock,            \* per node: server.clock
    n_seen,             \* per node: server.sent_messages_ids
    links,              \* per link: the lines written and not yet read, oldest first
    n_out,              \* history: per node, every line it wrote, in order
    n_log,              \* history: per node, the ids of its DistantMessage events, in order
    n_sent              \* history: the envelopes originated, in order

server_vars == <<clock, sent_messages_ids, pc, event, relayed, io_result, output_file,
                 app_tx, delivered, seen_as>>
merge_vars == <<m_self, m_other, m_out>>
net_vars == <<n_clock, n_seen, links, n_out, n_log, n_sent>>
vars == <<server_vars, merge_vars, net_vars>>

\* ------------------------------------------------------------ Clock
insert(map, k, v) == [p \in DOMAIN map \cup {k} |-> IF p = k THEN v ELSE map[p]]

Clock_new(id) == [p \in {id} |-> 0]

\* A faulty variant, for testing the properties below: the comparison reversed.
merge_entry_flipped(self, id, date) ==
    IF id \in DOMAIN self /\ self[id] <= date THEN self ELSE insert(self, id, date)
\* A faulty variant, for testing the properties below: a missing entry counts as 0.
merge_entry_absent_zero(self, id, date) ==
    IF date > (IF id \in DOMAIN self THEN self[id] ELSE 0)
    THEN insert(self, id, date) ELSE self
\* A faulty variant, for testing the properties below: the incoming date always wins.
merge_entry_overwrite(self, id, date) == insert(self, id, date)
\* One iteration of the loop of Clock::merge.
merge_entry(self, id, date) ==
    IF id \in DOMAIN self /\ self[id] >= date THEN self ELSE insert(self, id, date)

RECURSIVE merge_keys(_, _, _)
merge_keys(self, other, keys) ==
    IF keys = {} THEN self
    ELSE LET id == CHOOSE k \in keys : TRUE
         IN  merge_keys(merge_entry(self, id, other[id]), other, keys \ {id})

\* A faulty variant, for testing the properties below: no entry is added.
merge_known_only(self, other) ==
    [p \in DOMAIN self |->
        IF p \in DOMAIN other /\ other[p] > self[p] THEN other[p] ELSE self[p]]
\* Clock::merge.
merge(self, other) == merge_keys(self, other, DOMAIN other)

\* ------------------------------------------------------------ Server
\* HashSet::insert on sent_messages_ids: the set afterwards, and whether the
\* id was new.
\* A faulty variant, for testing the properties below: the id is not kept.
mark_seen_forget(ids, id) == [ids |-> ids, inserted |-> id \notin ids]
\* A faulty variant, for testing the properties below: every id counts as new.
mark_seen_always_new(ids, id) == [ids |-> ids \cup {id}, inserted |-> TRUE]
mark_seen(ids, id) == [ids |-> ids \cup {id}, inserted |-> id \notin ids]

get_date(clk) == clk[app_id]

\* A faulty variant, for testing the properties below: the date stays as it is.
increment_clock_at_stale(id, clk) ==
    insert(clk, id, IF id \in DOMAIN clk THEN clk[id] ELSE 0)
\* Server::increment_clock of the node whose app_id is id.
increment_clock_at(id, clk) ==
    insert(clk, id, (IF id \in DOMAIN clk THEN clk[id] ELSE 0) + 1)

\* A faulty variant, for testing the properties below: the date goes up by 2.
increment_clock_twice(clk) ==
    insert(clk, app_id, (IF app_id \in DOMAIN clk THEN clk[app_id] ELSE 0) + 2)
increment_clock(clk) ==
    insert(clk, app_id, (IF app_id \in DOMAIN clk THEN clk[app_id] ELSE 0) + 1)

\* A faulty variant, for testing the properties below: a failed write is not reported.
send_message_silent(msg, io) ==
    [written |-> IF io = "ok" THEN <<msg>> ELSE <<>>, notices |-> <<>>]
\* Server::send_message: what it writes and what it tells the application.
send_message(msg, io) ==
    [written |-> IF io = "ok" THEN <<msg>> ELSE <<>>,
     notices |-> IF io = "write_err" THEN <<ServerMessage(NoOneCanHearYou)>> ELSE <<>>]

\* A faulty variant, for testing the properties below: the relayed envelope is re-signed.
receive_message_resign(clk, msg, io) ==
    LET merged == merge(clk, msg.clock)
        out == [msg EXCEPT !.clock = merged, !.sender = app_id]
    IN  [clock |-> merged, msg |-> out, sent |-> send_message(out, io)]
\* A faulty variant, for testing the properties below: a failed send undoes the merge.
receive_message_undo(clk, msg, io) ==
    LET merged == merge(clk, msg.clock)
        out == [msg EXCEPT !.clock = merged]
    IN  [clock |-> IF io = "ok" THEN merged ELSE clk, msg |-> out,
         sent |-> send_message(out, io)]
\* A faulty variant, for testing the properties below: the envelope is not sent on.
receive_message_no_relay(clk, msg, io) ==
    LET merged == merge(clk, msg.clock)
        out == [msg EXCEPT !.clock = merged]
    IN  [clock |-> merged, msg |-> out, sent |-> [written |-> <<>>, notices |-> <<>>]]
\* Server::receive_message: the merged clock, the envelope with its clock
\* overwritten, and the effects of sending it.
receive_message(clk, msg, io) ==
    LET merged == merge(clk, msg.clock)
        out == [msg EXCEPT !.clock = merged]
    IN  [clock |-> merged, msg |-> out, sent |-> send_message(out, io)]

\* A faulty variant, for testing the properties below: every envelope is delivered.
deliver_any(msg) == <<DistantMessage(msg)>>
\* A faulty variant, for testing the properties below: Public envelopes are not delivered.
deliver_private_only(msg) ==
    IF msg.header.kind = "Private" /\ msg.header.to = app_id
    THEN <<DistantMessage(msg)>> ELSE <<>>
\* The match on msg.header after the relay: the events sent to the application.
deliver(msg) ==
    IF msg.header.kind = "Public" THEN <<DistantMessage(msg)>>
    ELSE IF msg.header.to = app_id THEN <<DistantMessage(msg)>>
    ELSE <<>>
\* The same match in the node whose app_id is id.
deliver_at(id, msg) ==
    IF msg.header.kind = "Public" THEN <<DistantMessage(msg)>>
    ELSE IF msg.header.to = id THEN <<DistantMessage(msg)>>
    ELSE <<>>

\* ------------------------------------------------------------ history
Unseen == [origin |-> "unseen"]
Local == [origin |-> "local"]
Remote(header) == [origin |-> "remote", header |-> header]

CountDelivered(f, s) ==
    [i \in MsgIds |-> f[i] + Cardinality({k \in DOMAIN s :
                                  s[k].type = "DistantMessage" /\ s[k].msg.id = i})]
FirstSeen(f, id, how) == IF f[id] = Unseen THEN [f EXCEPT ![id] = how] ELSE f

\* ------------------------------------------------------------ Init
\* Server::new(app_id).
Server_new ==
    /\ clock = Clock_new(app_id)
    /\ sent_messages_ids = {}
    /\ pc = "running"
    /\ event = [type |-> "None"]
    /\ relayed = <<>>
    /\ io_result = "none"
    /\ output_file = <<>>
    /\ app_tx = <<>>
    /\ delivered = [i \in MsgIds |-> 0]
    /\ seen_as = [i \in MsgIds |-> Unseen]

\* No call of merge on its own is under way.
MergeIdle ==
    /\ m_self = Clock_new(app_id)
    /\ m_other = Clock_new(app_id)
    /\ m_out = [calls |-> 0]

\* The nodes and the pipes of the overlay: A writes to B and C, B to C, and
\* C back to A.
Nodes == {"A", "B", "C"}
Links == {<<"A", "B">>, <<"A", "C">>, <<"B", "C">>, <<"C", "A">>}

\* Server::new in every node of the overlay, and the pipes empty.
NetInit ==
    /\ n_clock = [n \in Nodes |-> Clock_new(n)]
    /\ n_seen = [n \in Nodes |-> {}]
    /\ links = [l \in Links |-> <<>>]
    /\ n_out = [n \in Nodes |-> <<>>]
    /\ n_log = [n \in Nodes |-> <<>>]
    /\ n_sent = <<>>

Init == Server_new /\ MergeIdle /\ NetInit

\* A faulty variant, for testing the properties below: the application is told.
Nothing_but_notice ==
    /\ relayed' = <<>>
    /\ io_result' = "none"
    /\ output_file' = <<>>
    /\ app_tx' = <<ServerMessage(NoOneCanHearYou)>>
    /\ UNCHANGED <<clock, sent_messages_ids, pc, delivered, seen_as>>
\* An iteration that changes nothing but the event it consumed.
Nothing ==
    /\ relayed' = <<>>
    /\ io_result' = "none"
    /\ output_file' = <<>>
    /\ app_tx' = <<>>
    /\ UNCHANGED <<clock, sent_messages_ids, pc, delivered, seen_as>>

\* Event::DistantInput(line)
DistantInput(line) ==
    /\ pc = "running"
    /\ LET dec == from_str(line) IN
       IF ~dec.ok
       THEN /\ event' = [type |-> "DistantInput", decoded |-> FALSE]
            /\ Nothing
       ELSE IF ~mark_seen(sent_messages_ids, dec.msg.id).inserted
       THEN /\ event' = [type |-> "DistantInput", decoded |-> TRUE, id |-> dec.msg.id]
            /\ sent_messages_ids' = mark_seen(sent_messages_ids, dec.msg.id).ids
            /\ relayed' = <<>>
            /\ io_result' = "none"
            /\ output_file' = <<>>
            /\ app_tx' = <<>>
            /\ UNCHANGED <<clock, pc, delivered, seen_as>>
       ELSE /\ get_date(clock) < MaxDate
            /\ event' = [type |-> "DistantInput", decoded |-> TRUE, id |-> dec.msg.id,
                         msg |-> dec.msg]
            /\ \E io \in IoResults :
                 LET r == receive_message(increment_clock(clock), dec.msg, io)
                     sent == r.sent.notices \o deliver(r.msg)
                 IN  /\ sent_messages_ids' = mark_seen(sent_messages_ids, dec.msg.id).ids
                     /\ clock' = r.clock
                     /\ relayed' = <<r.msg>>
                     /\ io_result' = io
                     /\ output_file' = r.sent.written
                     /\ app_tx' = sent
                     /\ delivered' = CountDelivered(delivered, sent)
                     /\ seen_as' = FirstSeen(seen_as, dec.msg.id, Remote(dec.msg.header))
                     /\ UNCHANGED pc

\* The three handlers that originate an envelope: a random id, marked seen;
\* the clock incremented; the envelope built and sent.
Originate(msg_id, header, io) ==
    LET clk == increment_clock(clock)
        msg == Msg(msg_id, app_id, header, clk)
        sent == send_message(msg, io)
    IN  /\ get_date(clock) < MaxDate
        /\ sent_messages_ids' = mark_seen(sent_messages_ids, msg_id).ids
        /\ clock' = clk
        /\ relayed' = <<msg>>
        /\ io_result' = io
        /\ output_file' = sent.written
        /\ app_tx' = sent.notices
        /\ delivered' = CountDelivered(delivered, sent.notices)
        /\ seen_as' = FirstSeen(seen_as, msg_id, Local)

\* Event::UserPublicMessage(message)
UserPublicMessage(message, msg_id, io) ==
    /\ pc = "running"
    /\ event' = [type |-> "UserPublicMessage", message |-> message]
    /\ Originate(msg_id, Public(message), io)
    /\ UNCHANGED pc

\* Event::UserPrivateMessage(app_id, message)
UserPrivateMessage(to, message, msg_id, io) ==
    /\ pc = "running"
    /\ event' = [type |-> "UserPrivateMessage", to |-> to, message |-> message]
    /\ Originate(msg_id, Private(to, message), io)
    /\ UNCHANGED pc

\* A faulty variant, for testing the properties below: the handler ends the loop.
GetClock_exits ==
    /\ pc = "running"
    /\ event' = [type |-> "GetClock"]
    /\ pc' = "done"
    /\ relayed' = <<>>
    /\ io_result' = "none"
    /\ output_file' = <<>>
    /\ app_tx' = <<ClockEvent(clock)>>
    /\ UNCHANGED <<clock, sent_messages_ids, delivered, seen_as>>
\* A faulty variant, for testing the properties below: the query counts as an event.
GetClock_ticks ==
    /\ pc = "running"
    /\ get_date(clock) < MaxDate
    /\ event' = [type |-> "GetClock"]
    /\ relayed' = <<>>
    /\ io_result' = "none"
    /\ output_file' = <<>>
    /\ clock' = increment_clock(clock)
    /\ app_tx' = <<ClockEvent(clock')>>
    /\ UNCHANGED <<sent_messages_ids, pc, delivered, seen_as>>
\* Event::GetClock
GetClock ==
    /\ pc = "running"
    /\ event' = [type |-> "GetClock"]
    /\ relayed' = <<>>
    /\ io_result' = "none"
    /\ output_file' = <<>>
    /\ app_tx' = <<ClockEvent(clock)>>
    /\ UNCHANGED <<clock, sent_messages_ids, pc, delivered, seen_as>>

\* A faulty variant, for testing the properties below: the loop ends before the send.
Shutdown_no_broadcast(msg_id, io) ==
    /\ pc = "running"
    /\ event' = [type |-> "Shutdown"]
    /\ pc' = "done"
    /\ relayed' = <<>>
    /\ io_result' = "none"
    /\ output_file' = <<>>
    /\ app_tx' = <<>>
    /\ UNCHANGED <<clock, sent_messages_ids, delivered, seen_as>>
\* Event::Shutdown
Shutdown(msg_id, io) ==
    /\ pc = "running"
    /\ event' = [type |-> "Shutdown"]
    /\ Originate(msg_id, Public(LeftTheChat), io)
    /\ pc' = "done"

\* events.next() returns Err: the ? operator returns it from run.
EventsError ==
    /\ pc = "running"
    /\ event' = [type |-> "Err"]
    /\ pc' = "failed"
    /\ relayed' = <<>>
    /\ io_result' = "none"
    /\ output_file' = <<>>
    /\ app_tx' = <<>>
    /\ UNCHANGED <<clock, sent_messages_ids, delivered, seen_as>>

\* One iteration of the loop of run.
Next ==
    \/ \E line \in Lines : DistantInput(line) /\ UNCHANGED <<merge_vars, net_vars>>
    \/ \E message \in Texts, msg_id \in MsgIds, io \in IoResults :
          UserPublicMessage(message, msg_id, io) /\ UNCHANGED <<merge_vars, net_vars>>
    \/ \E to \in Peers, message \in Texts, msg_id \in MsgIds, io \in IoResults :
          UserPrivateMessage(to, message, msg_id, io) /\ UNCHANGED <<merge_vars, net_vars>>
    \/ GetClock /\ UNCHANGED <<merge_vars, net_vars>>
    \/ \E msg_id \in MsgIds, io \in IoResults :
          Shutdown(msg_id, io) /\ UNCHANGED <<merge_vars, net_vars>>
    \/ EventsError /\ UNCHANGED <<merge_vars, net_vars>>

Spec == Init /\ [][Next]_vars

\* ------------------------------------------------------------ SpecMerge
\* Clock::merge applied to every pair of clocks over MergePeers with dates
\* up to MaxMergeDate.
MergePeers == {"A", "B", "C"}
MergeClocks == UNION {[S -> 0..MaxMergeDate] : S \in SUBSET MergePeers}

MergeInit ==
    /\ Server_new
    /\ NetInit
    /\ m_self \in MergeClocks
    /\ m_other \in MergeClocks
    /\ m_out = [calls |-> 0]

\* a.merge(b) and, from the same two clocks, b.merge(a).
MergeBoth ==
    /\ m_out.calls = 0
    /\ m_out' = [calls |-> 1, ab |-> merge(m_self, m_other), ba |-> merge(m_other, m_self)]
    /\ UNCHANGED <<m_self, m_other, server_vars, net_vars>>

\* a.merge(b) once more on the result of a.merge(b).
MergeAgain ==
    /\ m_out.calls = 1
    /\ m_out' = [m_out EXCEPT !.calls = 2] @@ [abb |-> merge(m_out.ab, m_other)]
    /\ UNCHANGED <<m_self, m_other, server_vars, net_vars>>

MergeNext == MergeBoth \/ MergeAgain

SpecMerge == MergeInit /\ [][MergeNext]_vars

\* ------------------------------------------------------------ SpecNet
\* The headers the nodes of the overlay give their envelopes: a public
\* message, and a private message for A (which B reaches through C only).
NetHeaders == {Public(t) : t \in Texts} \cup {Private("A", t) : t \in Texts}
\* How a send ends in the overlay: for the pipes a serialization failure is
\* a failed write, nothing is written.
NetIoResults == {"ok", "write_err"}

\* The pipes after node n wrote the lines out: each line goes to every pipe
\* that leaves n.
Broadcast(ls, n, out) == [l \in Links |-> IF l[1] = n THEN ls[l] \o out ELSE ls[l]]

\* The ids of the DistantMessage events among the events s.
DeliveredIds(s) == [k \in DOMAIN s |-> s[k].msg.id]

\* Node n handles UserPublicMessage or UserPrivateMessage: a random id, marked
\* seen; the clock incremented; the envelope built and sent.
NetOriginate(n, msg_id, header, io) ==
    LET clk == increment_clock_at(n, n_clock[n])
        msg == Msg(msg_id, n, header, clk)
        sent == send_message(msg, io)
    IN  /\ Len(n_sent) < MaxSends
        /\ n_seen' = [n_seen EXCEPT ![n] = mark_seen(@, msg_id).ids]
        /\ n_clock' = [n_clock EXCEPT ![n] = clk]
        /\ links' = Broadcast(links, n, sent.written)
        /\ n_out' = [n_out EXCEPT ![n] = @ \o sent.written]
        /\ n_sent' = Append(n_sent, [id |-> msg_id, sender |-> n, header |-> header,
                                      past |-> n_seen[n]])
        /\ UNCHANGED <<n_log, server_vars, merge_vars>>

\* The node at the end of the pipe l handles DistantInput for the oldest line
\* of the pipe; the send it makes for a new envelope ends as one of ios.
NetReceive(l, ios) ==
    /\ links[l] # <<>>
    /\ LET n == l[2]
           msg == Head(links[l])
           rest == [links EXCEPT ![l] = Tail(@)]
           seen == mark_seen(n_seen[n], msg.id)
       IN  /\ n_seen' = [n_seen EXCEPT ![n] = seen.ids]
           /\ IF ~seen.inserted
              THEN /\ links' = rest
                   /\ UNCHANGED <<n_clock, n_out, n_log>>
              ELSE \E io \in ios :
                     LET r == receive_message(increment_clock_at(n, n_clock[n]), msg, io)
                     IN  /\ n_clock' = [n_clock EXCEPT ![n] = r.clock]
                         /\ links' = Broadcast(rest, n, r.sent.written)
                         /\ n_out' = [n_out EXCEPT ![n] = @ \o r.sent.written]
                         /\ n_log' = [n_log EXCEPT
                                         ![n] = @ \o DeliveredIds(deliver_at(n, r.msg))]
    /\ UNCHANGED <<n_sent, server_vars, merge_vars>>

\* The overlay, every send ending in any of the ways send_message handles.
NetNext ==
    \/ \E n \in Nodes, msg_id \in MsgIds, header \in NetHeaders, io \in NetIoResults :
          NetOriginate(n, msg_id, header, io)
    \/ \E l \in Links : NetReceive(l, NetIoResults)

SpecNet == Init /\ [][NetNext]_vars

\* ------------------------------------------------------------ SpecFlood
\* The overlay with every send succeeding and every node reading every
\* line that reaches it.
FloodNext ==
    \/ \E n \in Nodes, msg_id \in MsgIds, header \in NetHeaders :
          NetOriginate(n, msg_id, header, "ok")
    \/ \E l \in Links : NetReceive(l, {"ok"})

SpecFlood ==
    /\ Init
    /\ [][FloodNext]_vars
    /\ \A l \in Links : WF_vars(NetReceive(l, {"ok"}))

\* ------------------------------------------------------------ vocabulary
\* The iteration consumed a line that decoded to an envelope.
IsDecoded(e) == e.type = "DistantInput" /\ e.decoded
\* ... and the envelope was new: it went through receive_message.
IsAdmit(e) == IsDecoded(e) /\ "msg" \in DOMAIN e
\* ... and the envelope's id had been seen: it was dropped.
IsDup(e) == IsDecoded(e) /\ "msg" \notin DOMAIN e
\* The DistantMessage events among the events s.
Deliveries(s) == SelectSeq(s, LAMBDA x : x.type = "DistantMessage")
\* The ServerMessage events among the events s.
Notices(s) == SelectSeq(s, LAMBDA x : x.type = "ServerMessage")
\* What send_message writes of the envelope(s) r when it ends as io.
WrittenOf(r, io) == IF io = "ok" THEN r ELSE <<>>

\* ------------------------------------------------------------ C1
\* C1 as stated: a decoded line whose id is in sent_messages_ids changes
\* neither the clock nor the set, writes nothing and sends the application
\* nothing; one whose id is new raises the local date and writes the envelope
\* to the pipe.
C1_Original ==
    [][IsDecoded(event') =>
         IF event'.id \in sent_messages_ids
         THEN /\ clock' = clock
              /\ sent_messages_ids' = sent_messages_ids
              /\ output_file' = <<>>
              /\ Deliveries(app_tx') = <<>>
         ELSE /\ get_date(clock') >= get_date(clock) + 1
              /\ Len(output_file') = 1
              /\ output_file'[1].id = event'.id]_vars

\* C1 (amended): a decoded line whose id is in sent_messages_ids, however it
\* got there and whatever else the line carries, is a no-op: clock and set
\* unchanged, no send attempted, nothing written, nothing sent to the
\* application.  One whose id is new raises the local date by at least 1 and
\* hands the envelope to send_message once, which writes it exactly when
\* serialization and the write succeed.
C1_Dedup ==
    [][IsDecoded(event') =>
         IF event'.id \in sent_messages_ids
         THEN /\ clock' = clock
              /\ sent_messages_ids' = sent_messages_ids
              /\ relayed' = <<>>
              /\ output_file' = <<>>
              /\ app_tx' = <<>>
              /\ delivered' = delivered
         ELSE /\ get_date(clock') >= get_date(clock) + 1
              /\ Len(relayed') = 1
              /\ relayed'[1].id = event'.id
              /\ output_file' = WrittenOf(relayed', io_result')]_vars

\* A copy of an envelope first received from a peer arrives after the node
\* has handled other events (one of them originated an envelope), and is
\* dropped.
C1_Witness ==
    /\ IsDup(event)
    /\ seen_as[event.id].origin = "remote"
    /\ \E i \in MsgIds : seen_as[i] = Local
    /\ get_date(clock) >= 2

\* ------------------------------------------------------------ C2
\* C2: a new remote envelope with a Private header is handed to the relay
\* (send_message, which writes it unless serialization or the write fails)
\* whoever its target is; the application is sent exactly one DistantMessage
\* for it when the target is this node and none when it is another peer; and
\* over the whole run the number of DistantMessage events carrying its id
\* stays 1 resp. 0.
C2_PrivateDelivery ==
    /\ (IsAdmit(event) /\ event.msg.header.kind = "Private") =>
          /\ relayed = <<[event.msg EXCEPT !.clock = clock]>>
          /\ output_file = WrittenOf(relayed, io_result)
          /\ Deliveries(app_tx) =
                IF event.msg.header.to = app_id THEN <<DistantMessage(relayed[1])>>
                ELSE <<>>
    /\ \A i \in MsgIds :
          (seen_as[i].origin = "remote" /\ seen_as[i].header.kind = "Private") =>
             delivered[i] = IF seen_as[i].header.to = app_id THEN 1 ELSE 0

\* Both cases have happened: one id came in addressed to another peer and
\* was relayed without a delivery, the other came in addressed to this node
\* and was delivered once.
C2_Witness ==
    /\ IsAdmit(event)
    /\ event.msg.header.kind = "Private"
    /\ event.msg.header.to = app_id
    /\ io_result = "ok"
    /\ delivered[event.id] = 1
    /\ \E i \in MsgIds :
          /\ seen_as[i].origin = "remote"
          /\ seen_as[i].header.kind = "Private"
          /\ seen_as[i].header.to # app_id
          /\ delivered[i] = 0

\* ------------------------------------------------------------ C3
\* C3 as stated: a Public envelope, new from a peer or originated by
\* UserPublicMessage, sends the application exactly one DistantMessage.
C3_Original ==
    ((IsAdmit(event) /\ event.msg.header.kind = "Public") \/ event.type = "UserPublicMessage")
       => Len(Deliveries(app_tx)) = 1

\* C3 (amended): a new Public envelope from a peer sends the application
\* exactly one DistantMessage (carrying the relayed envelope), and its id is
\* delivered exactly once over the run; a Public envelope the node originates
\* (UserPublicMessage, Shutdown) sends none, and an id first seen as the
\* node's own is never delivered.
C3_PublicDelivery ==
    /\ (IsAdmit(event) /\ event.msg.header.kind = "Public") =>
          Deliveries(app_tx) = <<DistantMessage(relayed[1])>>
    /\ event.type \in {"UserPublicMessage", "Shutdown"} =>
          (relayed[1].header.kind = "Public" /\ Deliveries(app_tx) = <<>>)
    /\ \A i \in MsgIds :
          /\ (seen_as[i].origin = "remote" /\ seen_as[i].header.kind = "Public") =>
                delivered[i] = 1
          /\ seen_as[i] = Local => delivered[i] = 0

\* A Public envelope from a peer has just been delivered, after the node
\* originated an envelope of its own that was not.
C3_Witness ==
    /\ IsAdmit(event)
    /\ event.msg.header.kind = "Public"
    /\ delivered[event.id] = 1
    /\ \E i \in MsgIds : seen_as[i] = Local /\ delivered[i] = 0

\* ------------------------------------------------------------ C4
\* The departure envelope Shutdown builds.
Departure(id, clk) == Msg(id, app_id, Public(LeftTheChat), clk)

\* C4 as stated: the iteration that handles Shutdown writes exactly one
\* departure envelope to the pipe, its id in sent_messages_ids and the local
\* date one higher than before, and ends the loop; the loop has never ended
\* on Shutdown without that line written.
C4_Original ==
    /\ [][event'.type = "Shutdown" =>
            /\ pc' = "done"
            /\ clock' = [clock EXCEPT ![app_id] = @ + 1]
            /\ Len(output_file') = 1
            /\ output_file'[1] = Departure(output_file'[1].id, clock')
            /\ output_file'[1].id \in sent_messages_ids']_vars
    /\ [](pc = "done" => (event.type = "Shutdown" /\ Len(output_file) = 1))

\* C4 (amended): the iteration that handles Shutdown hands exactly one
\* departure envelope to send_message, its newly generated id added to
\* sent_messages_ids and the local date one higher than before, and ends the
\* loop; the envelope is written exactly when serialization and the write
\* succeed, and a failed write sends the application one notice.  The loop
\* has never ended on Shutdown without that one send having been made.
C4_Shutdown ==
    /\ [][event'.type = "Shutdown" =>
            /\ pc = "running" /\ pc' = "done"
            /\ clock' = [clock EXCEPT ![app_id] = @ + 1]
            /\ Len(relayed') = 1
            /\ relayed'[1] = Departure(relayed'[1].id, clock')
            /\ sent_messages_ids' = sent_messages_ids \cup {relayed'[1].id}
            /\ output_file' = WrittenOf(relayed', io_result')
            /\ io_result' \in IoResults
            /\ app_tx' = IF io_result' = "write_err"
                         THEN <<ServerMessage(NoOneCanHearYou)>> ELSE <<>>]_vars
    /\ [](pc = "done" => (event.type = "Shutdown" /\ Len(relayed) = 1))

\* Shutdown handled after the node received one envelope and originated
\* another: the departure envelope is on the pipe and the loop has ended.
C4_Witness ==
    /\ pc = "done"
    /\ event.type = "Shutdown"
    /\ output_file = <<Departure(relayed[1].id, clock)>>
    /\ get_date(clock) = 3
    /\ \E i \in MsgIds : seen_as[i].origin = "remote"

\* ------------------------------------------------------------ C5
Max(a, b) == IF a >= b THEN a ELSE b
\* The pointwise maximum of two clocks over the union of their keys.
PointwiseMax(a, b) ==
    [p \in DOMAIN a \cup DOMAIN b |->
        IF p \in DOMAIN a /\ p \in DOMAIN b THEN Max(a[p], b[p])
        ELSE IF p \in DOMAIN a THEN a[p] ELSE b[p]]

\* C5: when a line decodes to an envelope with a new id, the new local clock
\* is the pointwise maximum of the old clock with the local entry one higher
\* and the envelope's clock; the envelope handed to send_message, every line
\* written and every DistantMessage sent carry exactly the new local clock.
\* Instance: from clock {A:0}, a new Public envelope from B with clock {B:5}
\* gives the local clock {A:1, B:5}, is relayed with the clock {A:1, B:5}
\* and is delivered.
C5_ReceiveClock ==
    [][(IsDecoded(event') /\ event'.id \notin sent_messages_ids) =>
         /\ IsAdmit(event')
         /\ clock' = PointwiseMax([clock EXCEPT ![app_id] = @ + 1], event'.msg.clock)
         /\ relayed' = <<[event'.msg EXCEPT !.clock = clock']>>
         /\ output_file' = WrittenOf(relayed', io_result')
         /\ \A k \in DOMAIN Deliveries(app_tx') :
               Deliveries(app_tx')[k].msg.clock = clock'
         /\ (/\ clock = ("A" :> 0)
             /\ event'.msg.sender = "B"
             /\ event'.msg.header = Public("hi")
             /\ event'.msg.clock = ("B" :> 5))
            => /\ clock' = ("A" :> 1) @@ ("B" :> 5)
               /\ relayed'[1].clock = ("A" :> 1) @@ ("B" :> 5)
               /\ Deliveries(app_tx') = <<DistantMessage(relayed'[1])>>]_vars

\* The instance has happened: the first event was the Public envelope from B
\* with clock {B:5}, and it was written to the pipe with the clock {A:1, B:5}.
C5_Witness ==
    /\ IsAdmit(event)
    /\ event.msg.sender = "B"
    /\ event.msg.header = Public("hi")
    /\ event.msg.clock = ("B" :> 5)
    /\ clock = ("A" :> 1) @@ ("B" :> 5)
    /\ output_file = <<[event.msg EXCEPT !.clock = ("A" :> 1) @@ ("B" :> 5)]>>
    /\ app_tx = <<DistantMessage(output_file[1])>>

\* ------------------------------------------------------------ C6
\* The header UserPublicMessage resp. UserPrivateMessage gives its envelope.
HeaderOf(e) ==
    IF e.type = "UserPublicMessage" THEN Public(e.message) ELSE Private(e.to, e.message)

\* C6 as stated: UserPublicMessage and UserPrivateMessage raise the local
\* date by exactly 1, leave the other entries alone, write to the pipe one
\* envelope from this node with the event's header and the new clock, and
\* send the application no DistantMessage.
C6_Original ==
    [][event'.type \in {"UserPublicMessage", "UserPrivateMessage"} =>
         /\ clock' = [clock EXCEPT ![app_id] = @ + 1]
         /\ Len(output_file') = 1
         /\ output_file'[1] = Msg(output_file'[1].id, app_id, HeaderOf(event'), clock')
         /\ Deliveries(app_tx') = <<>>]_vars

\* C6 (amended): UserPublicMessage and UserPrivateMessage raise the local
\* date by exactly 1, leave the other entries alone, hand to send_message one
\* envelope from this node with the event's header and the new clock, which
\* is written exactly when serialization and the write succeed, and send the
\* application no DistantMessage, also when the target is this node.
C6_Originate ==
    [][event'.type \in {"UserPublicMessage", "UserPrivateMessage"} =>
         /\ clock' = [clock EXCEPT ![app_id] = @ + 1]
         /\ Len(relayed') = 1
         /\ relayed'[1] = Msg(relayed'[1].id, app_id, HeaderOf(event'), clock')
         /\ output_file' = WrittenOf(relayed', io_result')
         /\ io_result' \in IoResults
         /\ Deliveries(app_tx') = <<>>
         /\ delivered' = delivered
         /\ pc' = pc]_vars

\* A private message addressed to the node itself was sent, after an
\* envelope from a peer had brought an entry for B into the clock: it is on
\* the pipe and the application got nothing.
C6_Witness ==
    /\ event.type = "UserPrivateMessage"
    /\ event.to = app_id
    /\ "B" \in DOMAIN clock
    /\ output_file = <<Msg(relayed[1].id, app_id, Private(app_id, event.message), clock)>>
    /\ app_tx = <<>>

\* ------------------------------------------------------------ C7
Originating == {"UserPublicMessage", "UserPrivateMessage", "Shutdown"}

\* C7: the id of the envelope UserPublicMessage, UserPrivateMessage or
\* Shutdown hands to send_message is in sent_messages_ids when the handler is
\* done, as is the id of every line it wrote; ids never leave the set; and a
\* later line that decodes to an envelope with an id in the set changes no
\* clock, sends nothing and delivers nothing.
C7_OwnIdsSeen ==
    /\ [][event'.type \in Originating =>
            /\ Len(relayed') = 1
            /\ relayed'[1].sender = app_id
            /\ relayed'[1].id \in sent_messages_ids'
            /\ \A k \in DOMAIN output_file' : output_file'[k].id \in sent_messages_ids']_vars
    /\ [][sent_messages_ids \subseteq sent_messages_ids']_vars
    /\ [][(IsDecoded(event') /\ event'.id \in sent_messages_ids) =>
            /\ IsDup(event')
            /\ clock' = clock
            /\ relayed' = <<>>
            /\ output_file' = <<>>
            /\ app_tx' = <<>>]_vars

\* An envelope the node originated has come back: the line's id entered the
\* set as the node's own, and the line was dropped.
C7_Witness ==
    /\ IsDup(event)
    /\ seen_as[event.id] = Local
    /\ relayed = <<>>
    /\ app_tx = <<>>

\* ------------------------------------------------------------ C8
Relaying == {"DistantInput", "UserPublicMessage", "UserPrivateMessage"}

\* C8: when the write fails in the handler of DistantInput,
\* UserPublicMessage or UserPrivateMessage, the application is sent exactly
\* one notice, first of all the handler sends it; nothing is written (the
\* one envelope handed to send_message is not written by a second attempt);
\* and the loop is still running, ready for the next event of every kind.
C8_WriteFailure ==
    (io_result = "write_err" /\ event.type \in Relaying) =>
       /\ Len(relayed) = 1
       /\ output_file = <<>>
       /\ Notices(app_tx) = <<ServerMessage(NoOneCanHearYou)>>
       /\ app_tx[1] = ServerMessage(NoOneCanHearYou)
       /\ pc = "running"
       /\ ENABLED GetClock
       /\ \A line \in {Garbage, [wf |-> TRUE, msg |-> relayed[1]]} : ENABLED DistantInput(line)
       /\ get_date(clock) < MaxDate =>
             /\ \A i \in MsgIds : ENABLED UserPublicMessage("hi", i, "ok")
             /\ \A i \in MsgIds : ENABLED UserPrivateMessage("B", "hi", i, "ok")
             /\ \A i \in MsgIds : ENABLED Shutdown(i, "write_err")

\* The write of a new envelope from a peer failed: the application got the
\* notice and then the envelope, and the loop runs on.
C8_Witness ==
    /\ IsAdmit(event)
    /\ io_result = "write_err"
    /\ app_tx = <<ServerMessage(NoOneCanHearYou), DistantMessage(relayed[1])>>
    /\ pc = "running"

\* ------------------------------------------------------------ C9
Handled == {"DistantInput", "UserPublicMessage", "UserPrivateMessage", "GetClock"}

\* C9 as stated: the loop leaves "running" only in the iteration that
\* handles Shutdown; the handlers of the other events leave it running; and
\* once it has left, nothing happens any more.
C9_Original ==
    /\ [][(pc = "running" /\ pc' # "running") => event'.type = "Shutdown"]_vars
    /\ [][event'.type \in Handled => (pc = "running" /\ pc' = "running")]_vars
    /\ [][pc # "running" => UNCHANGED vars]_vars

\* C9 (amended): the loop leaves "running" in the iteration that handles
\* Shutdown (run returns Ok) and when events.next() returns an error (run
\* returns the error: no envelope, no clock change), and in no other way;
\* the handlers of DistantInput, UserPublicMessage, UserPrivateMessage and
\* GetClock leave it running whatever fails in them; and once it has left,
\* nothing happens any more.
C9_Termination ==
    /\ [][(pc = "running" /\ pc' # "running") =>
            \/ event'.type = "Shutdown" /\ pc' = "done"
            \/ /\ event'.type = "Err" /\ pc' = "failed"
               /\ relayed' = <<>> /\ output_file' = <<>> /\ app_tx' = <<>>
               /\ UNCHANGED <<clock, sent_messages_ids>>]_vars
    /\ [][event'.type \in Handled => (pc = "running" /\ pc' = "running")]_vars
    /\ [][pc # "running" => UNCHANGED vars]_vars
    /\ [](pc = "done" <=> event.type = "Shutdown")
    /\ [](pc = "failed" <=> event.type = "Err")

\* The event source failed after the node had received an envelope and
\* originated another: the loop has ended without a Shutdown.
C9_Witness ==
    /\ pc = "failed"
    /\ \E i \in MsgIds : seen_as[i].origin = "remote"
    /\ \E i \in MsgIds : seen_as[i] = Local

\* ------------------------------------------------------------ C10
\* C10: the clock always has an entry for the node itself, and no step
\* removes an entry or lowers one.
C10_ClockMonotone ==
    /\ [](app_id \in DOMAIN clock)
    /\ [][\A p \in DOMAIN clock : p \in DOMAIN clock' /\ clock'[p] >= clock[p]]_vars

\* An envelope came in whose clock is behind the local clock in both
\* entries, and the local entries stayed above it.
C10_Witness ==
    /\ IsAdmit(event)
    /\ DOMAIN event.msg.clock = Peers
    /\ \A p \in Peers : p \in DOMAIN clock /\ event.msg.clock[p] < clock[p]
    /\ clock["B"] = 5

\* ------------------------------------------------------------ C11
\* C11: for all clocks a and b, a.merge(b) leaves a equal to the pointwise
\* maximum of a and b over the union of their keys, a missing entry being
\* unknown and not 0: a peer b alone knows is added with b's date, also
\* when that date is 0, and a peer a alone knows keeps a's date.
C11_MergePointwiseMax ==
    m_out.calls >= 1 =>
       /\ m_out.ab = PointwiseMax(m_self, m_other)
       /\ DOMAIN m_out.ab = DOMAIN m_self \cup DOMAIN m_other
       /\ \A p \in DOMAIN m_other \ DOMAIN m_self : m_out.ab[p] = m_other[p]
       /\ \A p \in DOMAIN m_self \ DOMAIN m_other : m_out.ab[p] = m_self[p]
       /\ \A p \in DOMAIN m_self \cap DOMAIN m_other :
             /\ m_out.ab[p] >= m_self[p]
             /\ m_out.ab[p] >= m_other[p]
             /\ m_out.ab[p] \in {m_self[p], m_other[p]}

\* {A:1, B:0} merged with {B:2, C:0}: A is kept, B is raised, and C is
\* added with the date 0.
C11_Witness ==
    /\ m_out.calls >= 1
    /\ m_self = ("A" :> 1) @@ ("B" :> 0)
    /\ m_other = ("B" :> 2) @@ ("C" :> 0)
    /\ m_out.ab = ("A" :> 1) @@ ("B" :> 2) @@ ("C" :> 0)

\* ------------------------------------------------------------ C12
\* A clock as a set of (peer, date) entries.
Entries(c) == {<<p, c[p]>> : p \in DOMAIN c}

\* C12: merge is idempotent and commutative: for all clocks a and b, merging
\* b into the result of a.merge(b) changes nothing, and a.merge(b) and
\* b.merge(a) end with the same set of (peer, date) entries.
C12_MergeAlgebra ==
    /\ m_out.calls >= 1 => Entries(m_out.ab) = Entries(m_out.ba)
    /\ m_out.calls = 2 => m_out.abb = m_out.ab

\* Both laws applied to two clocks neither of which is behind the other:
\* each knows a peer the other does not, and a is ahead on a shared peer.
C12_Witness ==
    /\ m_out.calls = 2
    /\ DOMAIN m_self \ DOMAIN m_other # {}
    /\ DOMAIN m_other \ DOMAIN m_self # {}
    /\ \E p \in DOMAIN m_self \cap DOMAIN m_other : m_self[p] > m_other[p]
    /\ m_out.ab # m_self
    /\ m_out.ab # m_other

\* ------------------------------------------------------------ C13
\* The iteration consumed a line that did not decode.
IsUndecoded(e) == e.type = "DistantInput" /\ ~e.decoded

\* C13: a line that does not decode changes nothing: the clock and
\* sent_messages_ids are as before, no send is attempted, nothing is
\* written, the application is sent nothing, and the loop is running before
\* and after.
C13_DecodeFailure ==
    [][IsUndecoded(event') =>
         /\ clock' = clock
         /\ sent_messages_ids' = sent_messages_ids
         /\ relayed' = <<>>
         /\ output_file' = <<>>
         /\ app_tx' = <<>>
         /\ delivered' = delivered
         /\ pc = "running"
         /\ pc' = "running"]_vars

\* A line that did not decode was read by a node that had received an
\* envelope and originated another: nothing went out.
C13_Witness ==
    /\ IsUndecoded(event)
    /\ pc = "running"
    /\ output_file = <<>>
    /\ app_tx = <<>>
    /\ \E i \in MsgIds : seen_as[i].origin = "remote"
    /\ \E i \in MsgIds : seen_as[i] = Local

\* ------------------------------------------------------------ C14
\* C14: GetClock sends the application exactly one event, a Clock event
\* whose clock is the local clock, and changes neither the clock nor
\* sent_messages_ids, attempts no send, writes nothing and leaves the loop
\* running.  (The event carries a value: server.clock.clone().)
C14_GetClock ==
    [][event'.type = "GetClock" =>
         /\ app_tx' = <<ClockEvent(clock)>>
         /\ app_tx'[1].clock = clock'
         /\ clock' = clock
         /\ sent_messages_ids' = sent_messages_ids
         /\ relayed' = <<>>
         /\ output_file' = <<>>
         /\ delivered' = delivered
         /\ pc' = pc]_vars

\* The clock was queried after an envelope from B and an envelope of the
\* node's own: the application got the clock with both entries.
C14_Witness ==
    /\ event.type = "GetClock"
    /\ app_tx = <<ClockEvent(clock)>>
    /\ DOMAIN clock = Peers
    /\ clock["B"] > 0
    /\ get_date(clock) >= 2
    /\ \E i \in MsgIds : seen_as[i] = Local

\* ------------------------------------------------------------ C16
\* What the match on the header sends the application for the envelope m.
DeliveryFor(m) ==
    IF m.header.kind = "Public" \/ m.header.to = app_id THEN <<DistantMessage(m)>> ELSE <<>>

\* C16: a new envelope from a peer is relayed with nothing but its clock
\* changed: the envelope handed to send_message, the line written and the
\* envelope of the DistantMessage have the id, sender and header that came
\* in, and as clock the local clock after the merge.  The send is attempted
\* whatever the header is, and before the header is looked at: what the
\* send sends the application comes before the DistantMessage.
C16_RelayKeepsEnvelope ==
    [][IsAdmit(event') =>
         /\ clock' = PointwiseMax([clock EXCEPT ![app_id] = @ + 1], event'.msg.clock)
         /\ Len(relayed') = 1
         /\ relayed'[1].id = event'.msg.id
         /\ relayed'[1].sender = event'.msg.sender
         /\ relayed'[1].header = event'.msg.header
         /\ relayed'[1].clock = clock'
         /\ DOMAIN relayed'[1] = DOMAIN event'.msg
         /\ io_result' \in IoResults
         /\ output_file' = WrittenOf(relayed', io_result')
         /\ app_tx' = Notices(app_tx') \o DeliveryFor(relayed'[1])]_vars

\* A Private envelope for another peer came in from B with a clock other
\* than the local one: it went out under B's name with the local clock, and
\* the application got nothing.
C16_Witness ==
    /\ IsAdmit(event)
    /\ event.msg.header = Private("B", "hi")
    /\ event.msg.clock = ("B" :> 2)
    /\ output_file = <<Msg(event.id, "B", Private("B", "hi"), clock)>>
    /\ clock # event.msg.clock
    /\ app_tx = <<>>

\* ------------------------------------------------------------ C20
\* C20: when the write fails for a new envelope from a peer, what the
\* handler did stays done: the local clock is the old one with the local
\* date one higher merged with the envelope's, the id is in
\* sent_messages_ids, and after the notice the application is sent the
\* DistantMessage its header calls for.  Ids never leave the set, a later
\* line with an id in the set is dropped, and an envelope from a peer is
\* handed to send_message only when its id was not in the set: the node does
\* not relay that envelope later.
C20_FailedRelayCommitted ==
    /\ [][(IsAdmit(event') /\ io_result' = "write_err") =>
            /\ clock' = PointwiseMax([clock EXCEPT ![app_id] = @ + 1], event'.msg.clock)
            /\ sent_messages_ids' = sent_messages_ids \cup {event'.id}
            /\ output_file' = <<>>
            /\ app_tx' = <<ServerMessage(NoOneCanHearYou)>>
                            \o DeliveryFor([event'.msg EXCEPT !.clock = clock'])
            /\ delivered'[event'.id] = delivered[event'.id] + Len(DeliveryFor(event'.msg))
            /\ pc' = "running"]_vars
    /\ [][sent_messages_ids \subseteq sent_messages_ids']_vars
    /\ [][(IsDecoded(event') /\ event'.id \in sent_messages_ids) =>
            (IsDup(event') /\ relayed' = <<>> /\ output_file' = <<>> /\ app_tx' = <<>>)]_vars
    /\ [][\A k \in DOMAIN relayed' :
            relayed'[k].sender # app_id => relayed'[k].id \notin sent_messages_ids]_vars

\* The write failed for a Public envelope from B carrying the clock {B:5}:
\* the local clock has B's entry, the id is in the set, nothing was written
\* and the application got the notice and then the envelope.
C20_Witness ==
    /\ IsAdmit(event)
    /\ io_result = "write_err"
    /\ event.msg.header.kind = "Public"
    /\ event.msg.clock = ("B" :> 5)
    /\ clock["B"] = 5
    /\ event.id \in sent_messages_ids
    /\ output_file = <<>>
    /\ app_tx = <<ServerMessage(NoOneCanHearYou), DistantMessage(relayed[1])>>

\* ------------------------------------------------------------ overlay vocabulary
Range(s) == {s[k] : k \in DOMAIN s}
\* The first position of x in the sequence s.
Pos(s, x) == CHOOSE k \in DOMAIN s : s[k] = x /\ \A j \in DOMAIN s : s[j] = x => k <= j
\* How many envelopes were originated with the id i.
Originations(i) == Cardinality({k \in DOMAIN n_sent : n_sent[k].id = i})
\* How many of them node n originated.
OriginatedBy(n, i) ==
    Cardinality({k \in DOMAIN n_sent : n_sent[k].id = i /\ n_sent[k].sender = n})
\* How many lines with the id i node n wrote, and how many of them it relayed.
Writes(n, i) == Cardinality({k \in DOMAIN n_out[n] : n_out[n][k].id = i})
Relays(n, i) ==
    Cardinality({k \in DOMAIN n_out[n] : n_out[n][k].id = i /\ n_out[n][k].sender # n})
\* How many lines with the id i the nodes wrote between them.
TotalWrites(i) ==
    Cardinality({w \in UNION {{<<n, k>> : k \in DOMAIN n_out[n]} : n \in Nodes} :
                    n_out[w[1]][w[2]].id = i})
\* How many DistantMessage events with the id i node n sent its application.
Delivered(n, i) == Cardinality({k \in DOMAIN n_log[n] : n_log[n][k] = i})
\* No line is in any pipe.
Quiet == \A l \in Links : links[l] = <<>>

\* ------------------------------------------------------------ C15
\* The envelope with id i happens before the one with id j: each id was
\* given to one envelope, and the node that originated j had sent or
\* processed i before.
HappensBefore(i, j) ==
    /\ i # j
    /\ Originations(i) = 1
    /\ Originations(j) = 1
    /\ \E k \in DOMAIN n_sent : n_sent[k].id = j /\ i \in n_sent[k].past

\* C15: if the envelope with id i happens before the one with id j, no node
\* that sends its application both sends the DistantMessage of j before that
\* of i.
C15_CausalDelivery ==
    \A n \in Nodes : \A i, j \in MsgIds :
       (HappensBefore(i, j) /\ i \in Range(n_log[n]) /\ j \in Range(n_log[n]))
          => Pos(n_log[n], i) < Pos(n_log[n], j)

\* ------------------------------------------------------------ C17
\* The k-th envelope originated has been processed by every node other than
\* its sender, and sent to the application of each of them it is for.
Reached(k) ==
    /\ Len(n_sent) >= k
    /\ \A n \in Nodes \ {n_sent[k].sender} :
          /\ n_sent[k].id \in n_seen[n]
          /\ (n_sent[k].header.kind = "Public" \/ n_sent[k].header.to = n)
                => n_sent[k].id \in Range(n_log[n])
\* The id of the k-th envelope originated was given to another one as well.
IdShared(k) == Len(n_sent) >= k /\ Originations(n_sent[k].id) > 1

\* The same, a Private envelope sent to the application of its target
\* whichever node that is.
ReachedAsStated(k) ==
    /\ Reached(k)
    /\ n_sent[k].header.kind = "Private" => n_sent[k].id \in Range(n_log[n_sent[k].header.to])

\* C17 as stated: with every send succeeding and every node reading its
\* input, every envelope originated is in the end processed by every other
\* node, and delivered at every other node when Public and at its target
\* when Private.
C17_Original == \A k \in 1..MaxSends : (Len(n_sent) >= k) ~> ReachedAsStated(k)

\* C17 (amended): with every send succeeding and every node reading its
\* input, every envelope originated whose id no other envelope originated
\* in the overlay shares is in the end processed by every other node, and
\* delivered at every other node when Public and, when Private, at its
\* target if that is another node than its sender.
C17_FloodLiveness ==
    \A k \in 1..MaxSends : (Len(n_sent) >= k) ~> (Reached(k) \/ IdShared(k))

\* B sent a private message for A and a public message under two ids: C
\* relayed both, A was sent both, C the public one alone, and the pipes
\* are empty.
C17_Witness ==
    /\ Len(n_sent) = 2
    /\ n_sent[1].sender = "B" /\ n_sent[1].header.kind = "Private"
    /\ n_sent[2].sender = "B" /\ n_sent[2].header.kind = "Public"
    /\ n_sent[1].id # n_sent[2].id
    /\ Reached(1) /\ Reached(2)
    /\ n_log["A"] = <<n_sent[1].id, n_sent[2].id>>
    /\ n_log["C"] = <<n_sent[2].id>>
    /\ Relays("C", n_sent[1].id) = 1
    /\ Quiet

\* ------------------------------------------------------------ C18
\* C18 as stated: a node writes at most one line with a given id and sends
\* its application at most one DistantMessage with a given id, and the
\* nodes write at most as many lines as there are nodes for an id given to
\* one envelope.
C18_Original ==
    /\ \A n \in Nodes, i \in MsgIds : Writes(n, i) <= 1 /\ Delivered(n, i) <= 1
    /\ \A i \in MsgIds : Originations(i) = 1 => TotalWrites(i) <= Cardinality(Nodes)

\* C18 (amended): a node relays at most one line with a given id, writes
\* no line with that id besides that relay and one line for each envelope
\* it originates under the id (more than one line only when rng.gen()
\* repeats an id the node has seen), and sends its application at most one
\* DistantMessage with a given id.  For an id given to one envelope every
\* node writes at most one line, so the nodes write at most as many lines
\* as there are nodes, cycles or not: the flood ends.
C18_FloodBounded ==
    /\ \A n \in Nodes, i \in MsgIds :
          /\ Relays(n, i) <= 1
          /\ Writes(n, i) <= Relays(n, i) + OriginatedBy(n, i)
          /\ Delivered(n, i) <= 1
          /\ Originations(i) = 1 => Writes(n, i) <= 1
          /\ Originations(i) = 0 => Writes(n, i) = 0
    /\ \A i \in MsgIds :
          /\ Originations(i) = 1 => TotalWrites(i) <= Cardinality(Nodes)
          /\ Originations(i) >= 1 =>
                TotalWrites(i) <= Cardinality(Nodes) - 1 + Originations(i)

\* One envelope went round: A originated it, B and C relayed it, every
\* copy was read (A dropped the one that came back from C), and the pipes
\* are empty after three lines written.
C18_Witness ==
    /\ \E i \in MsgIds :
          /\ Originations(i) = 1
          /\ OriginatedBy("A", i) = 1
          /\ TotalWrites(i) = Cardinality(Nodes)
          /\ Relays("B", i) = 1
          /\ Relays("C", i) = 1
          /\ Delivered("A", i) = 0
    /\ Quiet

\* ------------------------------------------------------------ C19
\* Every entry of the clock c is at most what the peer itself has.
Owned(c) == \A p \in DOMAIN c : p \in Nodes /\ c[p] <= n_clock[p][p]

\* C19: in an overlay whose nodes all start from Clock::new, the entry for
\* a peer in the clock of any node and in the clock of any line in a pipe
\* (or written earlier) is at most that peer's own entry for itself; and
\* the writer's own entry in the lines a node writes goes strictly up from
\* one line to the next.
C19_OwnEntryBounds ==
    /\ \A n \in Nodes : n \in DOMAIN n_clock[n] /\ Owned(n_clock[n])
    /\ \A l \in Links : \A k \in DOMAIN links[l] : Owned(links[l][k].clock)
    /\ \A n \in Nodes : \A k \in DOMAIN n_out[n] :
          /\ Owned(n_out[n][k].clock)
          /\ n_out[n][k].clock[n] >= 1
          /\ k > 1 => n_out[n][k].clock[n] > n_out[n][k - 1].clock[n]

\* C wrote two lines, a relay and an envelope of its own, while a line
\* written earlier by another node, its clock behind, was still in a pipe.
C19_Witness ==
    /\ Len(n_out["C"]) = 2
    /\ n_out["C"][1].sender # "C"
    /\ n_out["C"][2].sender = "C"
    /\ \E l \in Links : \E k \in DOMAIN links[l] :
          /\ links[l][k].sender = "A"
          /\ links[l][k].clock["A"] < n_clock["A"]["A"]
====
